---- MODULE Spec2Model ----
(***************************************************************************)
(* NFA -> DFA subset construction (parte1_converter_afnd.py) and DFA word  *)
(* recognition (parte2_reconhecer_palavra.py).                             *)
(*                                                                         *)
(* Python values are records [type, str, elems]: a str carries its text in *)
(* `str`, a set or frozenset carries its elements in `elems`.  Texts are   *)
(* TLA+ strings, so "A" \o "B" is the text "AB".                           *)
(***************************************************************************)
EXTENDS Integers, Sequences, FiniteSets, TLC

VARIABLES
    pc,                     \* position of the running function
    \* ---- fecho_vazio / mover, called on their own
    arestas,                \* the transition lines the relation was built from
    semente,                \* argument estados_origem of fecho_vazio / mover
    simb,                   \* argument simbolo of mover
    retorno,                \* value returned by the last call
    retorno2,               \* value returned by fecho_vazio applied to retorno
    \* ---- converter_afnd_para_afd
    afnd,                   \* its argument
    estado_inicial_afd_set,
    fila,
    estados_afd_explorados,
    mapa_nomes_estados,
    afd_transicoes,
    afd_estados_finais,
    estado_atual_set,       \* the composite state taken from fila
    indice,                 \* position of the for loop in afnd["alfabeto"]
    afd,                    \* the dictionary it returns
    enfileirados,           \* history: every composite state put on fila, in order
    retirados,              \* history: every composite state taken from fila, in order
    nomeados,               \* history: every <<composite state, name>> given, in order
    \* ---- reconhecer_palavras (its argument afd is the variable afd)
    arq_palavras,           \* the word file: whether it exists, and its lines
    palavras,               \* the list read from the word file
    pos,                    \* position of the for loop in palavras
    saida,                  \* the lines written to arq_saida
    lidos,                  \* history: symbols the loop took from each word
    \* ---- ler_afnd / ler_afd (they return into afnd / afd)
    arq_entrada,            \* the automaton file: whether it exists, and its lines
    linhas,                 \* the list read from the automaton file
    transicoes_lidas,       \* the local transicoes of the reader
    alfabeto_lido,          \* the local alfabeto of the reader
    linha_k,                \* position of the for loop in linhas
    excecao,                \* the exception that ended the call, "" when none
    \* ---- fecho_vazio followed step by step
    fecho_passo,            \* its local fecho
    pilha_passo,            \* its local pilha
    empilhados,             \* history: every state the loop appended to pilha, in order
    \* ---- a call that follows another
    afd_anterior            \* the dictionary the call before returned

varsFecho == <<arestas, semente, simb, retorno, retorno2>>

varsConv == <<afnd, estado_inicial_afd_set, fila, estados_afd_explorados,
              mapa_nomes_estados, afd_transicoes, afd_estados_finais,
              estado_atual_set, indice, afd, enfileirados, retirados,
              nomeados>>

varsRec == <<arq_palavras, palavras, pos, saida, lidos>>

varsLer == <<arq_entrada, linhas, transicoes_lidas, alfabeto_lido, linha_k,
             excecao>>

varsPassos == <<fecho_passo, pilha_passo, empilhados, afd_anterior>>

vars == <<pc, varsFecho, varsConv, varsRec, varsLer, varsPassos>>

----------------------------------------------------------------------------
(* Bounds *)

\* largest number of transition lines of a relation given to fecho_vazio/mover
MaxArestas == 2

\* largest number of transitions of an NFA given to converter_afnd_para_afd
MaxTransicoes == 2

\* largest number of transitions of an NFA whose state names are followed
\* through a whole conversion (SpecConvAmplo)
MaxTransicoesAmplo == 3

\* largest number of transitions of an NFA whose conversion is followed to
\* its end under fair scheduling (SpecConvJusto)
MaxTransicoesJusto == 2

\* largest number of transitions of an NFA that is converted twice
\* (SpecConvOrdem)
MaxTransicoesOrdem == 4

\* largest number of transition lines of a relation on which the loop of
\* fecho_vazio is followed step by step (SpecFechoPassos)
MaxArestasPassos == 2

\* longest word the automata are compared on, longest line of a word file
MaxPalavra == 2

\* largest number of lines of a word file
MaxLinhas == 2

\* largest number of transitions of a DFA given to reconhecer_palavras
MaxTransAfd == 2

\* largest number of lines after the third of an automaton file
MaxLinhasTransicao == 2

----------------------------------------------------------------------------
(* Python values *)

Str(s) == [type |-> "str", str |-> s, elems |-> {}]

PySet(E) == [type |-> "set", str |-> "", elems |-> E]

FrozenSet(E) == [type |-> "frozenset", str |-> "", elems |-> E]

None == [type |-> "NoneType", str |-> "", elems |-> {}]

\* isinstance(x, set): a frozenset is not an instance of set
IsInstanceSet(x) == x.type = "set"

\* dict.get(key, default); a dict is a function on its keys
Get(d, key, default) == IF key \in DOMAIN d THEN d[key] ELSE default

\* d[key] = value
Put(d, key, value) ==
    [k \in (DOMAIN d) \cup {key} |-> IF k = key THEN value ELSE d[k]]

\* list(s) of a set: its elements in the order the iteration yields them
RECURSIVE List(_)
List(E) ==
    IF E = {} THEN <<>>
    ELSE LET x == CHOOSE x \in E : TRUE IN <<x>> \o List(E \ {x})

\* ord(c) of the characters the tokens are written with
ord == [c \in {"0", "1", "A", "B", "H", "h"} |->
          CASE c = "0" -> 48 [] c = "1" -> 49 [] c = "A" -> 65
            [] c = "B" -> 66 [] c = "H" -> 72 [] c = "h" -> 104]

\* a < b on the texts of two str: lexicographic by code point
RECURSIVE StrLess(_, _)
StrLess(a, b) ==
    IF a = "" THEN b # ""
    ELSE IF b = "" THEN FALSE
    ELSE IF Head(a) = Head(b) THEN StrLess(Tail(a), Tail(b))
    ELSE ord[Head(a)] < ord[Head(b)]

\* sorted(list(E)) of a set of str
RECURSIVE Sorted(_)
Sorted(E) ==
    IF E = {} THEN <<>>
    ELSE LET m == CHOOSE x \in E : \A y \in E \ {x} : StrLess(x.str, y.str)
         IN <<m>> \o Sorted(E \ {m})

\* "".join(l) of a list of str
RECURSIVE Join(_)
Join(l) == IF l = <<>> THEN "" ELSE Head(l).str \o Join(Tail(l))

\* x in l, for a list l
InList(x, l) == \E k \in 1..Len(l) : l[k] = x

----------------------------------------------------------------------------
(* The tokens of the automaton files *)

\* state names; "AB" is also the text "A" followed by "B"
Nomes == {"A", "B", "AB"}

\* the symbols ler_afnd accepts: the alphabet symbols and the epsilon 'h'
Simbolos == {"0", "1", "h"}

H == Str("h")

\* the well-formed transition lines: origem simbolo destino
Linhas == Nomes \X Simbolos \X Nomes

\* transicoes as ler_afnd builds it from the transition lines:
\* (origem, simbolo) -> set of destinos
Transicoes(ls) ==
    [k \in {<<Str(l[1]), Str(l[2])>> : l \in ls} |->
        PySet({Str(l[3]) : l \in {m \in ls : <<Str(m[1]), Str(m[2])>> = k}})]

----------------------------------------------------------------------------
(* fecho_vazio *)

\* lines 85-95: the while loop over the work-stack
RECURSIVE FechoLoop(_, _, _)
FechoLoop(fecho, pilha, transicoes) ==
    IF pilha = <<>> THEN fecho
    ELSE LET estado_atual == pilha[Len(pilha)]
             resto == SubSeq(pilha, 1, Len(pilha) - 1)
             destinos_vazios == Get(transicoes, <<estado_atual, H>>, PySet({}))
             novos == destinos_vazios.elems \ fecho
         IN FechoLoop(fecho \cup novos, resto \o List(novos), transicoes)

fecho_vazio(estados_origem, transicoes) ==
    LET origem == IF ~IsInstanceSet(estados_origem)
                  THEN {estados_origem}
                  ELSE estados_origem.elems
    IN FrozenSet(FechoLoop(origem, List(origem), transicoes))

----------------------------------------------------------------------------
(* mover *)

\* mover that also follows the epsilon transitions of the states it reaches
mover_segue_vazio(estados_origem, simbolo, transicoes) ==
    PySet(fecho_vazio(
        PySet(UNION {Get(transicoes, <<estado, simbolo>>, PySet({})).elems :
                        estado \in estados_origem.elems}),
        transicoes).elems)

mover(estados_origem, simbolo, transicoes) ==
    PySet(UNION {Get(transicoes, <<estado, simbolo>>, PySet({})).elems :
                    estado \in estados_origem.elems})

----------------------------------------------------------------------------
(* Calls of fecho_vazio and mover on bounded inputs *)

\* the subsets of S with at most k elements
RECURSIVE SubconjuntosAte(_, _)
SubconjuntosAte(S, k) ==
    IF k = 0 THEN {{}}
    ELSE LET P == SubconjuntosAte(S, k - 1)
         IN P \cup {p \cup {x} : p \in P, x \in S}

Relacoes == SubconjuntosAte(Linhas, MaxArestas)

Sementes ==
    {Str(n) : n \in Nomes}
    \cup {PySet({Str(n) : n \in ns}) : ns \in SUBSET Nomes}
    \cup {FrozenSet({Str(n) : n \in ns}) : ns \in SUBSET Nomes}

FechoParado ==
    /\ semente = None
    /\ simb = None
    /\ retorno = None
    /\ retorno2 = None

RecParado ==
    /\ arq_palavras = [existe |-> FALSE, linhas |-> <<>>]
    /\ palavras = <<>>
    /\ pos = 0
    /\ saida = <<>>
    /\ lidos = <<>>

LerParado ==
    /\ arq_entrada = [existe |-> FALSE, linhas |-> <<>>]
    /\ linhas = <<>>
    /\ transicoes_lidas = <<>>
    /\ alfabeto_lido = {}
    /\ linha_k = 0
    /\ excecao = ""

PassosParado ==
    /\ fecho_passo = {}
    /\ pilha_passo = <<>>
    /\ empilhados = <<>>
    /\ afd_anterior = None

ConvParado ==
    /\ afnd = None
    /\ estado_inicial_afd_set = None
    /\ fila = <<>>
    /\ estados_afd_explorados = {}
    /\ mapa_nomes_estados = <<>>
    /\ afd_transicoes = <<>>
    /\ afd_estados_finais = {}
    /\ estado_atual_set = None
    /\ indice = 0
    /\ afd = None
    /\ enfileirados = <<>>
    /\ retirados = <<>>
    /\ nomeados = <<>>

InitFecho ==
    /\ pc = "inicio"
    /\ arestas \in Relacoes
    /\ semente \in Sementes
    /\ simb \in {Str(s) : s \in Simbolos \ {"h"}}
    /\ retorno = None
    /\ retorno2 = None
    /\ ConvParado
    /\ RecParado
    /\ LerParado
    /\ PassosParado

ChamarFechoVazio ==
    /\ pc = "inicio"
    /\ retorno' = fecho_vazio(semente, Transicoes(arestas))
    /\ pc' = "fecho"
    /\ UNCHANGED <<varsPassos, arestas, semente, simb, retorno2, varsConv, varsRec, varsLer>>

\* fecho_vazio applied to the value a call of fecho_vazio returned
ChamarFechoDoFecho ==
    /\ pc = "fecho"
    /\ retorno2' = fecho_vazio(retorno, Transicoes(arestas))
    /\ pc' = "fecho2"
    /\ UNCHANGED <<varsPassos, arestas, semente, simb, retorno, varsConv, varsRec, varsLer>>

ChamarMover ==
    /\ pc = "inicio"
    /\ semente.type \in {"set", "frozenset"}
    /\ retorno' = mover(semente, simb, Transicoes(arestas))
    /\ pc' = "mover"
    /\ UNCHANGED <<varsPassos, arestas, semente, simb, retorno2, varsConv, varsRec, varsLer>>

NextFecho == ChamarFechoVazio \/ ChamarFechoDoFecho \/ ChamarMover

SpecFecho == InitFecho /\ [][NextFecho]_vars

----------------------------------------------------------------------------
(* converter_afnd_para_afd *)

\* the dictionary ler_afnd returns for the states, initial state, final states
\* and well-formed transition lines ls: the alphabet is the sorted list of
\* the symbols other than 'h' that occur on a transition
Afnd(estados, inicial, finais, ls) ==
    [estados |-> PySet({Str(n) : n \in estados}),
     alfabeto |-> Sorted({Str(l[2]) : l \in {m \in ls : m[2] # "h"}}),
     transicoes |-> Transicoes(ls),
     estado_inicial |-> Str(inicial),
     estados_finais |-> PySet({Str(n) : n \in finais})]

gerar_nome_estado(conjunto_estados) ==
    Str(Join(Sorted(conjunto_estados.elems)))

\* the state before converter_afnd_para_afd is called on afnd
ConvInicio ==
    /\ pc = "conv"
    /\ FechoParado
    /\ RecParado
    /\ LerParado
    /\ PassosParado
    /\ estado_inicial_afd_set = None
    /\ fila = <<>>
    /\ estados_afd_explorados = {}
    /\ mapa_nomes_estados = <<>>
    /\ afd_transicoes = <<>>
    /\ afd_estados_finais = {}
    /\ estado_atual_set = None
    /\ indice = 0
    /\ afd = None
    /\ enfileirados = <<>>
    /\ retirados = <<>>
    /\ nomeados = <<>>

\* the well-formed NFAs over Nomes with at most MaxTransicoes transitions
InitConv ==
    /\ arestas \in SubconjuntosAte(Linhas, MaxTransicoes)
    /\ \E inicial \in Nomes, finais \in SUBSET Nomes :
          afnd = Afnd(Nomes, inicial, finais, arestas)
    /\ ConvInicio

\* the same with at most MaxTransicoesAmplo transitions and no final state
InitConvAmplo ==
    /\ arestas \in SubconjuntosAte(Linhas, MaxTransicoesAmplo)
    /\ \E inicial \in Nomes : afnd = Afnd(Nomes, inicial, {}, arestas)
    /\ ConvInicio

\* lines 121-141: the initial composite state is put on the queue and named
Iniciar ==
    /\ pc = "conv"
    /\ \E inicial_set \in {fecho_vazio(afnd.estado_inicial, afnd.transicoes)} :
          /\ estado_inicial_afd_set' = inicial_set
          /\ fila' = <<inicial_set>>
          /\ enfileirados' = <<inicial_set>>
          /\ estados_afd_explorados' = {inicial_set}
          /\ mapa_nomes_estados' =
                Put(<<>>, inicial_set, gerar_nome_estado(inicial_set))
          /\ nomeados' = <<<<inicial_set, gerar_nome_estado(inicial_set)>>>>
    /\ afd_transicoes' = <<>>
    /\ afd_estados_finais' = {}
    /\ pc' = "while"
    /\ UNCHANGED <<varsPassos, afnd, estado_atual_set, indice, afd, retirados, varsFecho, varsRec, varsLer>>

\* the loop head with fila[0] in place of fila.popleft(): the composite
\* state stays on the queue
RetirarSemPopleft ==
    /\ pc = "while"
    /\ fila # <<>>
    /\ estado_atual_set' = Head(fila)
    /\ afd_estados_finais' =
          IF Head(fila).elems \cap afnd.estados_finais.elems # {}
          THEN afd_estados_finais \cup {Head(fila)}
          ELSE afd_estados_finais
    /\ indice' = 1
    /\ pc' = IF Len(afnd.alfabeto) = 0 THEN "while" ELSE "for"
    /\ UNCHANGED <<varsPassos, afnd, estado_inicial_afd_set, fila,
                   estados_afd_explorados, mapa_nomes_estados, afd_transicoes,
                   afd, enfileirados, retirados, nomeados, varsFecho, varsRec,
                   varsLer>>

\* lines 144-151: a composite state is taken from the queue
Retirar ==
    /\ pc = "while"
    /\ fila # <<>>
    /\ estado_atual_set' = Head(fila)
    /\ fila' = Tail(fila)
    /\ retirados' = Append(retirados, Head(fila))
    /\ afd_estados_finais' =
          IF Head(fila).elems \cap afnd.estados_finais.elems # {}
          THEN afd_estados_finais \cup {Head(fila)}
          ELSE afd_estados_finais
    /\ indice' = 1
    /\ pc' = IF Len(afnd.alfabeto) = 0 THEN "while" ELSE "for"
    /\ UNCHANGED <<varsPassos, afnd, estado_inicial_afd_set, estados_afd_explorados,
                   mapa_nomes_estados, afd_transicoes, afd, enfileirados,
                   nomeados, varsFecho, varsRec, varsLer>>

\* a membership test that takes every composite state for not yet seen
not_in_sempre(x, conjunto) == TRUE

\* line 168: x not in conjunto
not_in(x, conjunto) == x \notin conjunto

\* a truth test that takes the empty set for true as well
bool_sempre(conjunto) == TRUE

\* line 166: the truth value of a set, false exactly for the empty set
bool(conjunto) == conjunto.elems # {}

\* lines 154-177: the body of the for loop, for one symbol of the alphabet
ParaSimbolo ==
    /\ pc = "for"
    /\ \E simbolo \in {afnd.alfabeto[indice]} :
       \E proximo_estado_set_raw \in
              {mover(estado_atual_set, simbolo, afnd.transicoes)} :
       \E proximo_estado_set \in
              {fecho_vazio(proximo_estado_set_raw, afnd.transicoes)} :
       \E novo \in {not_in(proximo_estado_set, estados_afd_explorados)} :
       \E mapa \in {IF novo
                    THEN Put(mapa_nomes_estados, proximo_estado_set,
                             gerar_nome_estado(proximo_estado_set))
                    ELSE mapa_nomes_estados} :
          IF bool(proximo_estado_set)
          THEN /\ estados_afd_explorados' =
                     estados_afd_explorados \cup {proximo_estado_set}
               /\ fila' = IF novo THEN Append(fila, proximo_estado_set)
                          ELSE fila
               /\ enfileirados' =
                     IF novo THEN Append(enfileirados, proximo_estado_set)
                     ELSE enfileirados
               /\ mapa_nomes_estados' = mapa
               /\ nomeados' =
                     IF novo
                     THEN Append(nomeados, <<proximo_estado_set,
                                             mapa[proximo_estado_set]>>)
                     ELSE nomeados
               /\ afd_transicoes' =
                     Put(afd_transicoes, <<mapa[estado_atual_set], simbolo>>,
                         mapa[proximo_estado_set])
          ELSE UNCHANGED <<estados_afd_explorados, fila, enfileirados,
                           mapa_nomes_estados, nomeados, afd_transicoes>>
    /\ indice' = indice + 1
    /\ pc' = IF indice = Len(afnd.alfabeto) THEN "while" ELSE "for"
    /\ UNCHANGED <<varsPassos, afnd, estado_inicial_afd_set, afd_estados_finais,
                   estado_atual_set, afd, retirados, varsFecho, varsRec, varsLer>>

\* values() of a dict
Values(d) == {d[k] : k \in DOMAIN d}

\* the return with the final states of the NFA given as the final states of
\* the DFA
RetornarFinaisDoAfnd ==
    /\ pc = "while"
    /\ fila = <<>>
    /\ afd' = [estados |-> PySet(Values(mapa_nomes_estados)),
               alfabeto |-> afnd.alfabeto,
               transicoes |-> afd_transicoes,
               estado_inicial |-> mapa_nomes_estados[estado_inicial_afd_set],
               estados_finais |-> afnd.estados_finais,
               mapa_original |->
                   [v \in Values(mapa_nomes_estados) |->
                       CHOOSE k \in DOMAIN mapa_nomes_estados :
                           /\ mapa_nomes_estados[k] = v
                           /\ \A j \in 1..Len(enfileirados) :
                                 mapa_nomes_estados[enfileirados[j]] = v
                                     => \E i \in j..Len(enfileirados) :
                                           enfileirados[i] = k]]
    /\ pc' = "done"
    /\ UNCHANGED <<varsPassos, afnd, estado_inicial_afd_set, fila, estados_afd_explorados,
                   mapa_nomes_estados, afd_transicoes, afd_estados_finais,
                   estado_atual_set, indice, enfileirados, retirados,
                   nomeados, varsFecho, varsRec, varsLer>>

\* lines 180-187: the queue is empty, the DFA is returned
Retornar ==
    /\ pc = "while"
    /\ fila = <<>>
    /\ afd' = [estados |-> PySet(Values(mapa_nomes_estados)),
               alfabeto |-> afnd.alfabeto,
               transicoes |-> afd_transicoes,
               estado_inicial |-> mapa_nomes_estados[estado_inicial_afd_set],
               estados_finais |->
                   PySet({mapa_nomes_estados[s] : s \in afd_estados_finais}),
               mapa_original |->
                   [v \in Values(mapa_nomes_estados) |->
                       CHOOSE k \in DOMAIN mapa_nomes_estados :
                           /\ mapa_nomes_estados[k] = v
                           /\ \A j \in 1..Len(enfileirados) :
                                 mapa_nomes_estados[enfileirados[j]] = v
                                     => \E i \in j..Len(enfileirados) :
                                           enfileirados[i] = k]]
    /\ pc' = "done"
    /\ UNCHANGED <<varsPassos, afnd, estado_inicial_afd_set, fila, estados_afd_explorados,
                   mapa_nomes_estados, afd_transicoes, afd_estados_finais,
                   estado_atual_set, indice, enfileirados, retirados,
                   nomeados, varsFecho, varsRec, varsLer>>

NextConv == Iniciar \/ Retirar \/ ParaSimbolo \/ Retornar

SpecConv == InitConv /\ [][NextConv]_vars

SpecConvAmplo == InitConvAmplo /\ [][NextConv]_vars

\* the transition lines that lead from a state to another state
LinhasSemLaco == {l \in Linhas : l[1] # l[3]}

\* the NFAs with at most MaxTransicoesOrdem such transitions, with no final
\* state or the final state B
InitConvOrdem ==
    /\ arestas \in SubconjuntosAte(LinhasSemLaco, MaxTransicoesOrdem)
    /\ \E inicial \in Nomes, finais \in {{}, {"B"}} :
          afnd = Afnd(Nomes, inicial, finais, arestas)
    /\ ConvInicio

\* converter_afnd_para_afd is called a second time on the same NFA: the DFA
\* of the first call is kept and the locals of lines 121-123 are fresh
ChamarDeNovo ==
    /\ pc = "done"
    /\ afd_anterior = None
    /\ afd_anterior' = afd
    /\ afd' = None
    /\ estado_inicial_afd_set' = None
    /\ fila' = <<>>
    /\ estados_afd_explorados' = {}
    /\ mapa_nomes_estados' = <<>>
    /\ afd_transicoes' = <<>>
    /\ afd_estados_finais' = {}
    /\ estado_atual_set' = None
    /\ indice' = 0
    /\ enfileirados' = <<>>
    /\ retirados' = <<>>
    /\ nomeados' = <<>>
    /\ pc' = "conv"
    /\ UNCHANGED <<afnd, fecho_passo, pilha_passo, empilhados, varsFecho,
                   varsRec, varsLer>>

\* lines 144-151 in the second call, with the pending composite state taken
\* from any position of the queue but the first
RetirarForaDeOrdem ==
    /\ pc = "while"
    /\ afd_anterior # None
    /\ \E i \in 2..Len(fila) :
          /\ estado_atual_set' = fila[i]
          /\ fila' = SubSeq(fila, 1, i - 1) \o SubSeq(fila, i + 1, Len(fila))
          /\ retirados' = Append(retirados, fila[i])
          /\ afd_estados_finais' =
                IF fila[i].elems \cap afnd.estados_finais.elems # {}
                THEN afd_estados_finais \cup {fila[i]}
                ELSE afd_estados_finais
    /\ indice' = 1
    /\ pc' = IF Len(afnd.alfabeto) = 0 THEN "while" ELSE "for"
    /\ UNCHANGED <<varsPassos, afnd, estado_inicial_afd_set,
                   estados_afd_explorados, mapa_nomes_estados, afd_transicoes,
                   afd, enfileirados, nomeados, varsFecho, varsRec, varsLer>>

NextConvOrdem == NextConv \/ ChamarDeNovo \/ RetirarForaDeOrdem

SpecConvOrdem == InitConvOrdem /\ [][NextConvOrdem]_vars

\* the NFAs with at most MaxTransicoesJusto transitions, with no final state
\* or the final state B
InitConvJusto ==
    /\ arestas \in SubconjuntosAte(Linhas, MaxTransicoesJusto)
    /\ \E inicial \in Nomes, finais \in {{}, {"B"}} :
          afnd = Afnd(Nomes, inicial, finais, arestas)
    /\ ConvInicio

\* the call runs on: a statement that can be executed is executed
SpecConvJusto == InitConvJusto /\ [][NextConv]_vars /\ WF_vars(NextConv)

----------------------------------------------------------------------------
(* reconhecer_palavras *)

\* str.strip() of a text whose only whitespace is the space
RECURSIVE LStrip(_)
LStrip(t) == IF t # "" /\ Head(t) = " " THEN LStrip(Tail(t)) ELSE t

RECURSIVE RStrip(_)
RStrip(t) ==
    IF t # "" /\ SubSeq(t, Len(t), Len(t)) = " "
    THEN RStrip(SubSeq(t, 1, Len(t) - 1))
    ELSE t

Strip(t) == RStrip(LStrip(t))

\* [linha.strip() for linha in f.readlines() if linha.strip()]
RECURSIVE LinhasNaoVazias(_)
LinhasNaoVazias(ls) ==
    IF ls = <<>> THEN <<>>
    ELSE IF Strip(Head(ls)) # ""
         THEN <<Str(Strip(Head(ls)))>> \o LinhasNaoVazias(Tail(ls))
         ELSE LinhasNaoVazias(Tail(ls))

\* Simular that goes on to the next symbol, in the same state, after a symbol
\* outside the alphabet or an undefined transition
RECURSIVE SimularSemBreak(_, _, _, _)
SimularSemBreak(dfa, palavra, k, estado_atual) ==
    IF k > Len(palavra.str)
    THEN [valida |-> TRUE, estado_atual |-> estado_atual, lidos |-> k - 1]
    ELSE LET simbolo == Str(SubSeq(palavra.str, k, k))
             proximo == Get(dfa.transicoes, <<estado_atual, simbolo>>, None)
         IN IF ~InList(simbolo, dfa.alfabeto) \/ proximo = None
            THEN SimularSemBreak(dfa, palavra, k + 1, estado_atual)
            ELSE SimularSemBreak(dfa, palavra, k + 1, proximo)

\* lines 89-105: the for loop over the symbols of palavra, from its k-th
\* symbol in state estado_atual; lidos counts the symbols taken from palavra
RECURSIVE Simular(_, _, _, _)
Simular(dfa, palavra, k, estado_atual) ==
    IF k > Len(palavra.str)
    THEN [valida |-> TRUE, estado_atual |-> estado_atual, lidos |-> k - 1]
    ELSE LET simbolo == Str(SubSeq(palavra.str, k, k))
         IN IF ~InList(simbolo, dfa.alfabeto)
            THEN [valida |-> FALSE, estado_atual |-> estado_atual,
                  lidos |-> k]
            ELSE LET proximo ==
                         Get(dfa.transicoes, <<estado_atual, simbolo>>, None)
                 IN IF proximo = None
                    THEN [valida |-> FALSE, estado_atual |-> proximo,
                          lidos |-> k]
                    ELSE Simular(dfa, palavra, k + 1, proximo)

\* lines 74-114: the verdict on one word
Resultado(dfa, palavra) ==
    IF palavra = Str("")
    THEN IF dfa.estado_inicial \in dfa.estados_finais.elems
         THEN "aceito" ELSE "nao aceito"
    ELSE LET fim == Simular(dfa, palavra, 1, dfa.estado_inicial)
         IN IF fim.valida /\ fim.estado_atual \in dfa.estados_finais.elems
            THEN "aceito" ELSE "nao aceito"

\* lines 84 and 117: the line written for one word
LinhaSaida(dfa, palavra) ==
    IF palavra = Str("")
    THEN "(palavra vazia) " \o Resultado(dfa, palavra)
    ELSE palavra.str \o " " \o Resultado(dfa, palavra)

\* the texts of at most n characters of cs
RECURSIVE Textos(_, _)
Textos(cs, n) ==
    IF n = 0 THEN {""}
    ELSE LET T == Textos(cs, n - 1) IN T \cup {t \o c : t \in T, c \in cs}

\* the sequences of at most n elements of S
RECURSIVE SeqsAte(_, _)
SeqsAte(S, n) ==
    IF n = 0 THEN {<<>>}
    ELSE LET Q == SeqsAte(S, n - 1) IN Q \cup {Append(q, x) : q \in Q, x \in S}

\* the names of the states of the DFAs given to reconhecer_palavras
NomesAfd == {"A", "B"}

\* the transition lines of a DFA file: at most one per (origem, simbolo)
LinhasAfd ==
    {ls \in SubconjuntosAte(NomesAfd \X {"0", "1"} \X NomesAfd, MaxTransAfd) :
        \A l \in ls, m \in ls : (l[1] = m[1] /\ l[2] = m[2]) => l = m}

\* the dictionary ler_afd returns for the states, initial state, final states
\* and transition lines ls: the alphabet is the sorted list of the symbols
\* that occur on a transition
Afd(estados, inicial, finais, ls) ==
    [estados |-> PySet({Str(n) : n \in estados}),
     alfabeto |-> Sorted({Str(l[2]) : l \in ls}),
     transicoes |->
         [k \in {<<Str(l[1]), Str(l[2])>> : l \in ls} |->
             Str((CHOOSE l \in ls : <<Str(l[1]), Str(l[2])>> = k)[3])],
     estado_inicial |-> Str(inicial),
     estados_finais |-> PySet({Str(n) : n \in finais})]

\* the characters of the lines of a word file
Caracteres == {"0", "1", " "}

\* the state before reconhecer_palavras is called on afd and a word file
RecInicio ==
    /\ pc = "rec"
    /\ \E inicial \in NomesAfd, finais \in SUBSET NomesAfd, ls \in LinhasAfd :
          afd = Afd(NomesAfd, inicial, finais, ls)
    /\ palavras = <<>>
    /\ pos = 0
    /\ saida = <<>>
    /\ lidos = <<>>
    /\ arestas = {}
    /\ FechoParado
    /\ LerParado
    /\ PassosParado
    /\ afnd = None
    /\ estado_inicial_afd_set = None
    /\ fila = <<>>
    /\ estados_afd_explorados = {}
    /\ mapa_nomes_estados = <<>>
    /\ afd_transicoes = <<>>
    /\ afd_estados_finais = {}
    /\ estado_atual_set = None
    /\ indice = 0
    /\ enfileirados = <<>>
    /\ retirados = <<>>
    /\ nomeados = <<>>

\* a file of the file system: whether it exists, and its lines
Arquivo(ls) == [existe |-> TRUE, linhas |-> ls]

SemArquivo == [existe |-> FALSE, linhas |-> <<>>]

\* a word file of at most MaxLinhas lines, or no file
InitRec ==
    /\ \/ \E ls \in SeqsAte(Textos(Caracteres, MaxPalavra), MaxLinhas) :
             arq_palavras = Arquivo(ls)
       \/ arq_palavras = SemArquivo
    /\ RecInicio

\* a word file of one line, or no file
InitRecUma ==
    /\ \/ \E t \in Textos(Caracteres, MaxPalavra) :
             arq_palavras = Arquivo(<<t>>)
       \/ arq_palavras = SemArquivo
    /\ RecInicio

\* lines 57-60: the word file is read
LerPalavras ==
    /\ pc = "rec"
    /\ arq_palavras.existe
    /\ palavras' = LinhasNaoVazias(arq_palavras.linhas)
    /\ pos' = 1
    /\ pc' = "rec_for"
    /\ UNCHANGED <<varsPassos, arq_palavras, saida, lidos, varsFecho, varsConv, varsLer>>

\* lines 61-63: the word file is missing
ArquivoNaoEncontrado ==
    /\ pc = "rec"
    /\ ~arq_palavras.existe
    /\ pc' = "rec_fim"
    /\ UNCHANGED <<varsPassos, varsRec, varsFecho, varsConv, varsLer>>

\* lines 72-117: the body of the for loop, for one word
ProcessarPalavra ==
    /\ pc = "rec_for"
    /\ pos <= Len(palavras)
    /\ saida' = Append(saida, LinhaSaida(afd, palavras[pos]))
    /\ lidos' = Append(lidos,
                       IF palavras[pos] = Str("") THEN 0
                       ELSE Simular(afd, palavras[pos], 1,
                                    afd.estado_inicial).lidos)
    /\ pos' = pos + 1
    /\ UNCHANGED <<varsPassos, pc, arq_palavras, palavras, varsFecho, varsConv, varsLer>>

\* line 119: every word was processed
FimPalavras ==
    /\ pc = "rec_for"
    /\ pos > Len(palavras)
    /\ pc' = "rec_fim"
    /\ UNCHANGED <<varsPassos, varsRec, varsFecho, varsConv, varsLer>>

NextRec ==
    LerPalavras \/ ArquivoNaoEncontrado \/ ProcessarPalavra \/ FimPalavras

SpecRec == InitRec /\ [][NextRec]_vars

SpecRecUma == InitRecUma /\ [][NextRec]_vars

----------------------------------------------------------------------------
(* ler_afnd and ler_afd *)

\* str.split() of a text whose only whitespace is the space; atual is the
\* token being read
RECURSIVE SplitDe(_, _)
SplitDe(t, atual) ==
    IF t = "" THEN (IF atual = "" THEN <<>> ELSE <<Str(atual)>>)
    ELSE IF Head(t) = " "
         THEN (IF atual = "" THEN <<>> ELSE <<Str(atual)>>)
                  \o SplitDe(Tail(t), "")
         ELSE SplitDe(Tail(t), atual \o Head(t))

Split(t) == SplitDe(t, "")

\* set(l) of a list
SetOf(l) == {l[i] : i \in 1..Len(l)}

\* the loop body without lines 45-48: the symbol is taken as it is written
PassoAfndSemCoercao(st, linha) ==
    LET partes == Split(linha.str)
    IN IF Len(partes) # 3 THEN st
       ELSE LET origem == partes[1]
                simbolo == partes[2]
                destino == partes[3]
                chave == <<origem, simbolo>>
                antes == IF chave \in DOMAIN st.transicoes
                         THEN st.transicoes[chave].elems ELSE {}
            IN [transicoes |->
                    Put(st.transicoes, chave, PySet(antes \cup {destino})),
                alfabeto |-> IF simbolo # H
                             THEN st.alfabeto \cup {simbolo}
                             ELSE st.alfabeto,
                excecao |-> ""]

\* ler_afnd lines 35-58: the body of the for loop for one line; st holds the
\* locals transicoes and alfabeto
PassoAfnd(st, linha) ==
    LET partes == Split(linha.str)
    IN IF Len(partes) # 3 THEN st
       ELSE LET origem == partes[1]
                simbolo == IF ~InList(partes[2], <<Str("0"), Str("1"), H>>)
                           THEN H ELSE partes[2]
                destino == partes[3]
                chave == <<origem, simbolo>>
                antes == IF chave \in DOMAIN st.transicoes
                         THEN st.transicoes[chave].elems ELSE {}
            IN [transicoes |->
                    Put(st.transicoes, chave, PySet(antes \cup {destino})),
                alfabeto |-> IF simbolo # H
                             THEN st.alfabeto \cup {simbolo}
                             ELSE st.alfabeto,
                excecao |-> ""]

\* ler_afd lines 36-41: the body of the for loop for one line; unpacking a
\* line that has not three fields raises ValueError
PassoAfd(st, linha) ==
    LET partes == Split(linha.str)
    IN IF Len(partes) # 3 THEN [st EXCEPT !.excecao = "ValueError"]
       ELSE [transicoes |->
                 Put(st.transicoes, <<partes[1], partes[2]>>, partes[3]),
             alfabeto |-> st.alfabeto \cup {partes[2]},
             excecao |-> ""]

\* lines 61-67 of ler_afnd, 44-50 of ler_afd: the dictionary returned
Automato(ls, st) ==
    [estados |-> PySet(SetOf(Split(ls[1].str))),
     alfabeto |-> Sorted(st.alfabeto),
     transicoes |-> st.transicoes,
     estado_inicial |-> ls[2],
     estados_finais |-> PySet(SetOf(Split(ls[3].str)))]

LocaisIniciais == [transicoes |-> <<>>, alfabeto |-> {}, excecao |-> ""]

\* the for loop of ler_afnd from the i-th line on
RECURSIVE LoopAfnd(_, _, _)
LoopAfnd(ls, i, st) ==
    IF i > Len(ls) THEN st ELSE LoopAfnd(ls, i + 1, PassoAfnd(st, ls[i]))

\* the for loop of ler_afd from the i-th line on, up to an exception
RECURSIVE LoopAfd(_, _, _)
LoopAfd(ls, i, st) ==
    IF i > Len(ls) \/ st.excecao # "" THEN st
    ELSE LoopAfd(ls, i + 1, PassoAfd(st, ls[i]))

\* a whole call on a file: the value returned and the exception raised
ler_afnd(arq) ==
    IF ~arq.existe THEN [retorno |-> None, excecao |-> ""]
    ELSE LET ls == LinhasNaoVazias(arq.linhas)
         IN IF Len(ls) < 3 THEN [retorno |-> None, excecao |-> "IndexError"]
            ELSE [retorno |-> Automato(ls, LoopAfnd(ls, 4, LocaisIniciais)),
                  excecao |-> ""]

ler_afd(arq) ==
    IF ~arq.existe THEN [retorno |-> None, excecao |-> ""]
    ELSE LET ls == LinhasNaoVazias(arq.linhas)
         IN IF Len(ls) < 3 THEN [retorno |-> None, excecao |-> "IndexError"]
            ELSE LET st == LoopAfd(ls, 4, LocaisIniciais)
                 IN IF st.excecao # ""
                    THEN [retorno |-> None, excecao |-> st.excecao]
                    ELSE [retorno |-> Automato(ls, st), excecao |-> ""]

\* the lines an automaton file may hold after its third line: transitions
\* with an expected or an unexpected symbol, lines of two and of four fields,
\* and blank lines
LinhasDeTransicao ==
    {o \o " " \o x \o " " \o d :
        o \in NomesAfd, x \in {"0", "1", "h", "H"}, d \in NomesAfd}
    \cup {"A 0", "A 0 B B", ""}

\* the state before a reader is called on an automaton file
InitLer ==
    /\ pc \in {"ler_afnd", "ler_afd"}
    /\ \/ \E finais \in {"B", ""},
             ls \in SeqsAte(LinhasDeTransicao, MaxLinhasTransicao) :
             arq_entrada = Arquivo(<<"A B", "A", finais>> \o ls)
       \/ arq_entrada = SemArquivo
    /\ linhas = <<>>
    /\ transicoes_lidas = <<>>
    /\ alfabeto_lido = {}
    /\ linha_k = 0
    /\ excecao = ""
    /\ arestas = {}
    /\ FechoParado
    /\ ConvParado
    /\ RecParado
    /\ PassosParado

\* lines 19-22 of ler_afnd, 18-23 of ler_afd: the file is missing
NaoEncontrado ==
    /\ pc \in {"ler_afnd", "ler_afd"}
    /\ ~arq_entrada.existe
    /\ pc' = IF pc = "ler_afnd" THEN "afnd_fim" ELSE "afd_fim"
    /\ UNCHANGED <<varsPassos, varsLer, varsFecho, varsConv, varsRec>>

\* lines 15-31 of ler_afnd, 16-32 of ler_afd: the file is read and its first
\* three lines are taken
Abrir ==
    /\ pc \in {"ler_afnd", "ler_afd"}
    /\ arq_entrada.existe
    /\ linhas' = LinhasNaoVazias(arq_entrada.linhas)
    /\ IF Len(linhas') < 3
       THEN /\ excecao' = "IndexError"
            /\ pc' = IF pc = "ler_afnd" THEN "afnd_fim" ELSE "afd_fim"
            /\ UNCHANGED linha_k
       ELSE /\ linha_k' = 4
            /\ pc' = IF pc = "ler_afnd" THEN "afnd_for" ELSE "afd_for"
            /\ UNCHANGED excecao
    /\ UNCHANGED <<varsPassos, arq_entrada, transicoes_lidas, alfabeto_lido, varsFecho,
                   varsConv, varsRec>>

Locais ==
    [transicoes |-> transicoes_lidas, alfabeto |-> alfabeto_lido,
     excecao |-> excecao]

\* ler_afnd lines 34-58: one line of the for loop
LinhaAfnd ==
    /\ pc = "afnd_for"
    /\ linha_k <= Len(linhas)
    /\ LET st == PassoAfnd(Locais, linhas[linha_k])
       IN /\ transicoes_lidas' = st.transicoes
          /\ alfabeto_lido' = st.alfabeto
    /\ linha_k' = linha_k + 1
    /\ UNCHANGED <<varsPassos, pc, arq_entrada, linhas, excecao, varsFecho, varsConv,
                   varsRec>>

\* ler_afnd lines 61-67
RetornarAfnd ==
    /\ pc = "afnd_for"
    /\ linha_k > Len(linhas)
    /\ afnd' = Automato(linhas, Locais)
    /\ pc' = "afnd_fim"
    /\ UNCHANGED <<varsPassos, varsLer, varsFecho, varsRec, estado_inicial_afd_set, fila,
                   estados_afd_explorados, mapa_nomes_estados, afd_transicoes,
                   afd_estados_finais, estado_atual_set, indice, afd,
                   enfileirados, retirados, nomeados>>

\* ler_afd lines 35-41: one line of the for loop
LinhaAfd ==
    /\ pc = "afd_for"
    /\ linha_k <= Len(linhas)
    /\ LET st == PassoAfd(Locais, linhas[linha_k])
       IN /\ transicoes_lidas' = st.transicoes
          /\ alfabeto_lido' = st.alfabeto
          /\ excecao' = st.excecao
          /\ pc' = IF st.excecao # "" THEN "afd_fim" ELSE "afd_for"
    /\ linha_k' = linha_k + 1
    /\ UNCHANGED <<varsPassos, arq_entrada, linhas, varsFecho, varsConv, varsRec>>

\* ler_afd lines 44-50
RetornarAfd ==
    /\ pc = "afd_for"
    /\ linha_k > Len(linhas)
    /\ afd' = Automato(linhas, Locais)
    /\ pc' = "afd_fim"
    /\ UNCHANGED <<varsPassos, varsLer, varsFecho, varsRec, afnd, estado_inicial_afd_set,
                   fila, estados_afd_explorados, mapa_nomes_estados,
                   afd_transicoes, afd_estados_finais, estado_atual_set,
                   indice, enfileirados, retirados, nomeados>>

NextLer ==
    NaoEncontrado \/ Abrir \/ LinhaAfnd \/ RetornarAfnd \/ LinhaAfd
        \/ RetornarAfd

SpecLer == InitLer /\ [][NextLer]_vars

----------------------------------------------------------------------------
(* escrever_afd, and ler_afd on the file it wrote *)

\* " ".join(l) of a list of str
RECURSIVE JoinEspaco(_)
JoinEspaco(l) ==
    IF l = <<>> THEN ""
    ELSE IF Len(l) = 1 THEN l[1].str
    ELSE l[1].str \o " " \o JoinEspaco(Tail(l))

\* a < b on two (origem, simbolo) keys: tuples compare field by field
ChaveMenor(a, b) ==
    \/ StrLess(a[1].str, b[1].str)
    \/ a[1] = b[1] /\ StrLess(a[2].str, b[2].str)

\* sorted(d.items()) of a dict with (origem, simbolo) keys: its keys in
\* ascending order
RECURSIVE SortedItems(_)
SortedItems(d) ==
    IF DOMAIN d = {} THEN <<>>
    ELSE LET m == CHOOSE x \in DOMAIN d :
                     \A y \in DOMAIN d \ {x} : ChaveMenor(x, y)
         IN <<m>> \o SortedItems([k \in DOMAIN d \ {m} |-> d[k]])

\* lines 192-200: the lines escrever_afd writes to the file
escrever_afd(dfa) ==
    LET estados_ordenados == Sorted(dfa.estados.elems)
        estados_finais_ordenados == Sorted(dfa.estados_finais.elems)
        itens == SortedItems(dfa.transicoes)
    IN <<JoinEspaco(estados_ordenados), dfa.estado_inicial.str,
         JoinEspaco(estados_finais_ordenados)>>
       \o [i \in 1..Len(itens) |->
              itens[i][1].str \o " " \o itens[i][2].str \o " "
                  \o dfa.transicoes[itens[i]].str]

\* the DFA returned by the conversion is written to the file that ler_afd is
\* then called on
Escrever ==
    /\ pc = "done"
    /\ arq_entrada' = Arquivo(escrever_afd(afd))
    /\ afd_anterior' = afd
    /\ afd' = None
    /\ pc' = "ler_afd"
    /\ UNCHANGED <<afnd, estado_inicial_afd_set, fila, estados_afd_explorados,
                   mapa_nomes_estados, afd_transicoes, afd_estados_finais,
                   estado_atual_set, indice, enfileirados, retirados,
                   nomeados, linhas, transicoes_lidas, alfabeto_lido, linha_k,
                   excecao, fecho_passo, pilha_passo, empilhados, varsFecho,
                   varsRec>>

NextIdaEVolta == NextConv \/ Escrever \/ Abrir \/ LinhaAfd \/ RetornarAfd

SpecIdaEVolta == InitConv /\ [][NextIdaEVolta]_vars

----------------------------------------------------------------------------
(* fecho_vazio, statement by statement *)

\* the lists that hold each element of the set E once: the orders in which
\* the iteration of a set may yield its elements
Ordens(E) ==
    {l \in SeqsAte(E, Cardinality(E)) :
        Len(l) = Cardinality(E) /\ SetOf(l) = E}

\* the state before fecho_vazio is called on semente and the relation
InitFechoPassos ==
    /\ pc = "fv"
    /\ arestas \in SubconjuntosAte(Linhas, MaxArestasPassos)
    /\ semente \in Sementes
    /\ simb = None
    /\ retorno = None
    /\ retorno2 = None
    /\ PassosParado
    /\ ConvParado
    /\ RecParado
    /\ LerParado

\* lines 77-83: the seed is made a set and copied to fecho and pilha
FechoEntrar ==
    /\ pc = "fv"
    /\ LET origem == IF ~IsInstanceSet(semente) THEN {semente}
                     ELSE semente.elems
       IN /\ fecho_passo' = origem
          /\ pilha_passo' \in Ordens(origem)
    /\ pc' = "fv_while"
    /\ UNCHANGED <<empilhados, afd_anterior, varsFecho, varsConv, varsRec,
                   varsLer>>

\* the loop body with pilha[-1] in place of pilha.pop(): the state stays on
\* the stack
FechoPassoSemPop ==
    /\ pc = "fv_while"
    /\ pilha_passo # <<>>
    /\ LET estado_atual == pilha_passo[Len(pilha_passo)]
           destinos_vazios ==
               Get(Transicoes(arestas), <<estado_atual, H>>, PySet({}))
           novos == destinos_vazios.elems \ fecho_passo
       IN /\ fecho_passo' = fecho_passo \cup novos
          /\ \E l \in Ordens(novos) :
                /\ pilha_passo' = pilha_passo \o l
                /\ empilhados' = empilhados \o l
    /\ UNCHANGED <<pc, afd_anterior, varsFecho, varsConv, varsRec, varsLer>>

\* the loop body when fecho is the seed itself and not a copy of it: what is
\* added to fecho is added to the seed
FechoPassoNaSemente ==
    /\ pc = "fv_while"
    /\ pilha_passo # <<>>
    /\ LET estado_atual == pilha_passo[Len(pilha_passo)]
           resto == SubSeq(pilha_passo, 1, Len(pilha_passo) - 1)
           destinos_vazios ==
               Get(Transicoes(arestas), <<estado_atual, H>>, PySet({}))
           novos == destinos_vazios.elems \ fecho_passo
       IN /\ fecho_passo' = fecho_passo \cup novos
          /\ semente' = IF IsInstanceSet(semente)
                        THEN PySet(fecho_passo \cup novos) ELSE semente
          /\ \E l \in Ordens(novos) :
                /\ pilha_passo' = resto \o l
                /\ empilhados' = empilhados \o l
    /\ UNCHANGED <<pc, afd_anterior, arestas, simb, retorno, retorno2,
                   varsConv, varsRec, varsLer>>

\* lines 85-95: one turn of the while loop
FechoPasso ==
    /\ pc = "fv_while"
    /\ pilha_passo # <<>>
    /\ LET estado_atual == pilha_passo[Len(pilha_passo)]
           resto == SubSeq(pilha_passo, 1, Len(pilha_passo) - 1)
           destinos_vazios ==
               Get(Transicoes(arestas), <<estado_atual, H>>, PySet({}))
           novos == destinos_vazios.elems \ fecho_passo
       IN /\ fecho_passo' = fecho_passo \cup novos
          /\ \E l \in Ordens(novos) :
                /\ pilha_passo' = resto \o l
                /\ empilhados' = empilhados \o l
    /\ UNCHANGED <<pc, afd_anterior, varsFecho, varsConv, varsRec, varsLer>>

\* line 99: pilha is empty, the frozenset is returned
FechoRetornar ==
    /\ pc = "fv_while"
    /\ pilha_passo = <<>>
    /\ retorno' = FrozenSet(fecho_passo)
    /\ pc' = "fv_fim"
    /\ UNCHANGED <<varsPassos, arestas, semente, simb, retorno2, varsConv,
                   varsRec, varsLer>>

NextFechoPassos == FechoEntrar \/ FechoPasso \/ FechoRetornar

\* the call runs on: a statement that can be executed is executed
SpecFechoPassos ==
    InitFechoPassos /\ [][NextFechoPassos]_vars /\ WF_vars(NextFechoPassos)

----------------------------------------------------------------------------
(* Calls of fecho_vazio, of mover and of converter_afnd_para_afd *)

InitChamadas == InitFecho \/ InitFechoPassos \/ InitConvJusto

NextChamadas == NextFecho \/ NextFechoPassos \/ NextConv

SpecChamadas == InitChamadas /\ [][NextChamadas]_vars

----------------------------------------------------------------------------
(* Properties of fecho_vazio and mover (SpecFecho, SpecFechoPassos) *)

\* the states the caller means by the seed: the state itself, or the members
SementeEstados(s) == IF s.type = "str" THEN {s} ELSE s.elems

\* the states a path of zero or more 'h' lines of ls leads to from a state of S
EpsAlcancaveis(S, ls) ==
    {Str(n) : n \in
        {m \in Nomes :
            \E c \in SeqsAte(Nomes, Cardinality(Nomes)) :
                /\ c # <<>>
                /\ Str(c[1]) \in S
                /\ c[Len(c)] = m
                /\ \A i \in 1..(Len(c) - 1) : <<c[i], "h", c[i + 1]>> \in ls}}

\* == of Python: a set and a frozenset with the same elements are equal
PyEq(a, b) ==
    IF a.type \in {"set", "frozenset"} /\ b.type \in {"set", "frozenset"}
    THEN a.elems = b.elems
    ELSE a = b

\* C3: for a non-empty set S of states, fecho_vazio applied to the value
\* fecho_vazio(S, R) returned yields the same set, and fecho_vazio(S, R)
\* contains every element of S.
C3_FechoIdempotenteMonotono ==
    (pc = "fecho2" /\ semente.type = "set" /\ semente.elems # {})
        => /\ PyEq(retorno2, retorno)
           /\ semente.elems \subseteq retorno.elems

\* C4: for a seed that is one state or a set of states, a state is in the
\* result of fecho_vazio exactly when zero or more epsilon transitions lead
\* to it from a state of the seed.
C4_FechoMenorConjuntoFechado ==
    pc = "fecho"
        => retorno.elems = EpsAlcancaveis(SementeEstados(semente), arestas)

\* C5: mover returns exactly the direct successors on the symbol of the states
\* of the set, follows no epsilon transition, and returns the empty set when
\* no state of the set has a transition on the symbol.
C5_MoverSucessoresDiretos ==
    pc = "mover"
        => retorno =
              PySet({Str(l[3]) : l \in
                        {m \in arestas : /\ m[2] = simb.str
                                         /\ Str(m[1]) \in semente.elems}})

\* mover returned a state that has an epsilon transition to a state it did
\* not return
C5_Witness ==
    /\ pc = "mover"
    /\ \E l \in arestas : /\ l[2] = "h"
                          /\ Str(l[1]) \in retorno.elems
                          /\ Str(l[3]) \notin retorno.elems

\* no state was appended twice to pilha by the loop, and none that the seed
\* had put in fecho
EmpilhadoUmaVez ==
    /\ \A i \in 1..Len(empilhados), j \in 1..Len(empilhados) :
          empilhados[i] = empilhados[j] => i = j
    /\ \A i \in 1..Len(empilhados) :
          empilhados[i] \notin
              (IF ~IsInstanceSet(semente) THEN {semente} ELSE semente.elems)
    /\ SetOf(pilha_passo) \subseteq fecho_passo

\* C17: every call of fecho_vazio reaches its return with an empty stack,
\* also on relations with epsilon cycles and epsilon self-loops, and the loop
\* appends each state to the stack at most once, and none of the seed.
C17_FechoTermina ==
    /\ <>(pc = "fv_fim" /\ pilha_passo = <<>>)
    /\ []EmpilhadoUmaVez

\* a call returned on a relation with an epsilon cycle through the seed,
\* after the loop appended a state to the stack
C17_Witness ==
    /\ pc = "fv_fim"
    /\ semente = Str("A")
    /\ {<<"A", "h", "B">>, <<"B", "h", "A">>} \subseteq arestas
    /\ empilhados = <<Str("B")>>
    /\ retorno = fecho_vazio(semente, Transicoes(arestas))

----------------------------------------------------------------------------
(* Properties of converter_afnd_para_afd (SpecConv, SpecConvAmplo) *)

\* the direct simulation of the NFA on the text w with fecho_vazio and mover:
\* the set of states it ends in, from the set S
RECURSIVE NfaFim(_, _, _)
NfaFim(nfa, S, w) ==
    IF w = "" THEN S
    ELSE NfaFim(nfa,
                fecho_vazio(mover(S, Str(Head(w)), nfa.transicoes),
                            nfa.transicoes),
                Tail(w))

NfaAceita(nfa, w) ==
    NfaFim(nfa, fecho_vazio(nfa.estado_inicial, nfa.transicoes), w).elems
        \cap nfa.estados_finais.elems # {}

\* C1: the DFA returned accepts a word over the alphabet, by the rules of
\* the recogniser, exactly when the direct simulation of the NFA ends in a
\* set that holds a final state.
C1_AfdEquivalenteAoAfnd ==
    pc = "done"
        => \A w \in Textos({a.str : a \in Values(afnd.alfabeto)}, MaxPalavra) :
              (Resultado(afd, Str(w)) = "aceito") <=> NfaAceita(afnd, w)

\* C2: two discovered composite states with different members have different
\* names, and every composite state still resolves to the name it was given.
C2_NomesSemColisao ==
    /\ \A S \in DOMAIN mapa_nomes_estados, T \in DOMAIN mapa_nomes_estados :
          S # T => mapa_nomes_estados[S] # mapa_nomes_estados[T]
    /\ \A i \in 1..Len(nomeados) :
          mapa_nomes_estados[nomeados[i][1]] = nomeados[i][2]

\* the states of the DFA that its recorded transitions lead to from its
\* initial state
RECURSIVE AlcancaveisAfd(_, _)
AlcancaveisAfd(dfa, R) ==
    LET R2 == R \cup {dfa.transicoes[k] :
                        k \in {j \in DOMAIN dfa.transicoes : j[1] \in R}}
    IN IF R2 = R THEN R ELSE AlcancaveisAfd(dfa, R2)

\* C10: every state name of the DFA returned names a composite state that was
\* put on the queue and taken from it, and the recorded transitions lead to
\* it from the initial state of the DFA.
C10_SemEstadosInalcancaveis ==
    pc = "done"
        => \A n \in afd.estados.elems :
              /\ \E i \in 1..Len(enfileirados), j \in 1..Len(retirados) :
                    /\ enfileirados[i] = retirados[j]
                    /\ mapa_nomes_estados[retirados[j]] = n
              /\ n \in AlcancaveisAfd(afd, {afd.estado_inicial})

\* C11: every call of converter_afnd_para_afd on a well-formed NFA reaches
\* the return with an empty queue and returns a DFA, also when the NFA has
\* epsilon cycles or symbol cycles.
C11_ConversaoTermina == <>(pc = "done" /\ fila = <<>> /\ afd # None)

\* a call returned for an NFA whose initial state has an epsilon loop and a
\* loop on a symbol
C11_Witness ==
    /\ pc = "done"
    /\ afd # None
    /\ afnd.estado_inicial = Str("A")
    /\ {<<"A", "h", "A">>, <<"A", "0", "A">>} \subseteq arestas

EmOrdem == retirados = enfileirados

\* C13: in the DFA returned the initial state and the final states are
\* states, the origin and the destination of every transition are states,
\* and the states are exactly the names given to the discovered composite
\* states.
C13_AfdBemFormado ==
    pc = "done"
        => /\ afd.estado_inicial \in afd.estados.elems
           /\ afd.estados_finais.elems \subseteq afd.estados.elems
           /\ \A k \in DOMAIN afd.transicoes :
                 /\ k[1] \in afd.estados.elems
                 /\ afd.transicoes[k] \in afd.estados.elems
           /\ afd.estados.elems =
                 {mapa_nomes_estados[S] : S \in estados_afd_explorados}
           /\ afd.estados.elems =
                 {nomeados[i][2] : i \in 1..Len(nomeados)}

\* a DFA was returned with two states, a transition and a final state that is
\* not the name of a final state of the NFA
C13_Witness ==
    /\ pc = "done"
    /\ Cardinality(afd.estados.elems) >= 2
    /\ DOMAIN afd.transicoes # {}
    /\ afd.estados_finais.elems \ afnd.estados_finais.elems # {}

TemFinal == afd_anterior # None /\ afd_anterior.estados_finais.elems # {}

\* the empty composite state, and the name gerar_nome_estado would give it
Phi == FrozenSet({})

\* the step of the for loop finds closure(move(S, symbol)) empty
DestinoVazio ==
    /\ pc = "for"
    /\ fecho_vazio(mover(estado_atual_set, afnd.alfabeto[indice],
                         afnd.transicoes), afnd.transicoes) = Phi

\* the empty set is not a discovered composite state and its name is not in
\* what the conversion records and returns
SemPhi ==
    /\ Phi \notin estados_afd_explorados
    /\ Phi \notin DOMAIN mapa_nomes_estados
    /\ ~InList(Phi, enfileirados)
    /\ \A k \in DOMAIN afd_transicoes :
          afd_transicoes[k] # gerar_nome_estado(Phi)
    /\ pc = "done"
          => /\ gerar_nome_estado(Phi) \notin afd.estados.elems
             /\ gerar_nome_estado(Phi) \notin afd.estados_finais.elems
             /\ \A k \in DOMAIN afd.transicoes :
                   afd.transicoes[k] # gerar_nome_estado(Phi)

\* C15: a step of the for loop that finds closure(move(S, symbol)) empty
\* records no transition, names no state and enqueues none; the empty set is
\* never a discovered composite state, and its name is never a state, a
\* final state or the destination of a transition of the DFA.
C15_SemEstadoDeErro ==
    /\ []SemPhi
    /\ [][DestinoVazio =>
              UNCHANGED <<afd_transicoes, mapa_nomes_estados,
                          estados_afd_explorados, fila, enfileirados,
                          nomeados>>]_vars

\* a composite state was taken from the queue, one symbol led it to the empty
\* set and another to a composite state, and the DFA was returned
C15_Witness ==
    /\ pc = "done"
    /\ \E S \in DOMAIN mapa_nomes_estados :
          /\ InList(S, retirados)
          /\ \E i \in 1..Len(afnd.alfabeto), j \in 1..Len(afnd.alfabeto) :
                /\ fecho_vazio(mover(S, afnd.alfabeto[i], afnd.transicoes),
                               afnd.transicoes) = Phi
                /\ fecho_vazio(mover(S, afnd.alfabeto[j], afnd.transicoes),
                               afnd.transicoes) # Phi

\* the discovered composite states that the name n was given to
Nomeados(n) == {S \in DOMAIN mapa_nomes_estados : mapa_nomes_estados[S] = n}

\* C16: a state name of the DFA returned is a final state exactly when the
\* composite state it names holds a final state of the NFA.
C16_FinalSeIntersectaFinais ==
    pc = "done"
        => \A n \in afd.estados.elems :
              /\ \A S \in Nomeados(n) :
                    n \in afd.estados_finais.elems
                        <=> S.elems \cap afnd.estados_finais.elems # {}
              /\ n \in afd.estados_finais.elems
                    <=> afd.mapa_original[n].elems
                            \cap afnd.estados_finais.elems # {}

\* C18: in every state of the exploration no composite state was enqueued
\* twice or named twice, every discovered composite state was named when it
\* was enqueued, and every composite state on the queue is discovered and
\* has a name.
C18_DescobertoUmaVez ==
    /\ \A i \in 1..Len(enfileirados), j \in 1..Len(enfileirados) :
          enfileirados[i] = enfileirados[j] => i = j
    /\ Len(nomeados) = Len(enfileirados)
    /\ \A i \in 1..Len(nomeados) : nomeados[i][1] = enfileirados[i]
    /\ estados_afd_explorados = SetOf(enfileirados)
    /\ DOMAIN mapa_nomes_estados = SetOf(enfileirados)
    /\ \A i \in 1..Len(fila) :
          /\ fila[i] \in estados_afd_explorados
          /\ fila[i] \in DOMAIN mapa_nomes_estados

\* the for loop reached a composite state that was already discovered, while
\* another was waiting on the queue
C18_Witness ==
    /\ pc = "for"
    /\ fila # <<>>
    /\ fecho_vazio(mover(estado_atual_set, afnd.alfabeto[indice],
                         afnd.transicoes), afnd.transicoes)
           \in estados_afd_explorados

\* the NFA still is what ler_afnd returns for the transition lines it was
\* built from
AfndIntacto ==
    afnd # None
        => /\ afnd.transicoes = Transicoes(arestas)
           /\ afnd.estados = PySet({Str(n) : n \in Nomes})
           /\ afnd.alfabeto =
                 Sorted({Str(l[2]) : l \in {m \in arestas : m[2] # "h"}})

\* C19: no step of a call of fecho_vazio, of mover or of
\* converter_afnd_para_afd changes the NFA (states, alphabet, initial state,
\* final states, destination sets of the transitions), the relation or the
\* seed it was given.
C19_AfndSomenteLido ==
    /\ []AfndIntacto
    /\ [][afnd' = afnd /\ arestas' = arestas /\ semente' = semente]_vars

\* fecho_vazio returned more states than the set it was given as seed, and
\* the seed is still that set
C19_Witness ==
    /\ pc = "fv_fim"
    /\ semente = PySet({Str("A")})
    /\ retorno = FrozenSet({Str("A"), Str("B")})

----------------------------------------------------------------------------
(* Properties of reconhecer_palavras (SpecRec, SpecRecUma) *)

\* the symbols of the text w, in order
Simbolos_de(w) == [i \in 1..Len(w) |-> Str(SubSeq(w, i, i))]

\* c is a run of the DFA on the first n symbols of the text w: it starts in
\* the initial state and every step is a defined transition on a symbol of
\* the alphabet
Percurso(dfa, w, n, c) ==
    /\ Len(c) = n + 1
    /\ c[1] = dfa.estado_inicial
    /\ \A i \in 1..n :
          /\ InList(Simbolos_de(w)[i], dfa.alfabeto)
          /\ <<c[i], Simbolos_de(w)[i]>> \in DOMAIN dfa.transicoes
          /\ dfa.transicoes[<<c[i], Simbolos_de(w)[i]>>] = c[i + 1]

Percursos(dfa, w, n) ==
    {c \in SeqsAte(dfa.estados.elems, n + 1) : Percurso(dfa, w, n, c)}

\* every symbol of w is in the alphabet, every transition along w is defined
\* and the state after the last symbol is final
AceitaAfd(dfa, w) ==
    \E c \in Percursos(dfa, w, Len(w)) :
        c[Len(w) + 1] \in dfa.estados_finais.elems

\* the symbols taken from w: up to and including the first one that is
\* outside the alphabet or has no transition, all of them when there is none
SimbolosLidos(dfa, w) ==
    IF Percursos(dfa, w, Len(w)) # {} THEN Len(w)
    ELSE CHOOSE n \in 1..Len(w) :
            /\ Percursos(dfa, w, n) = {}
            /\ Percursos(dfa, w, n - 1) # {}

\* C6: a non-empty word is reported accepted exactly when all its symbols are
\* in the alphabet, all transitions along it are defined and the last state
\* is final; the first symbol outside the alphabet or without a transition
\* rejects the word and no later symbol is taken.
C6_ReconheceNaoVazia ==
    \A i \in 1..Len(saida) :
        LET w == palavras[i].str
        IN w # ""
            => /\ saida[i] = w \o " " \o
                      (IF AceitaAfd(afd, w) THEN "aceito" ELSE "nao aceito")
               /\ lidos[i] = SimbolosLidos(afd, w)

\* a word of two symbols was rejected on its first symbol
C6_Witness ==
    \E i \in 1..Len(saida) :
        /\ Len(palavras[i].str) = 2
        /\ lidos[i] = 1
        /\ saida[i] = palavras[i].str \o " nao aceito"

\* C7: every empty line of the word file gets a result line, which says
\* accepted exactly when the initial state of the DFA is final.
C7_LinhaVaziaEhPalavraVazia ==
    (pc = "rec_fim" /\ arq_palavras.existe)
        => Cardinality({i \in 1..Len(arq_palavras.linhas) :
                           Strip(arq_palavras.linhas[i]) = ""})
           = Cardinality({i \in 1..Len(saida) :
                           saida[i] = "(palavra vazia) " \o
                               (IF afd.estado_inicial
                                      \in afd.estados_finais.elems
                                THEN "aceito" ELSE "nao aceito")})

\* C8: there is one result line per line of the word file, in the order of
\* the file: the i-th carries the i-th word, or the marker of the empty
\* word, and the verdict on it.
C8_UmaLinhaPorPalavra ==
    (pc = "rec_fim" /\ arq_palavras.existe)
        => /\ Len(saida) = Len(arq_palavras.linhas)
           /\ \A i \in 1..Len(saida) :
                 saida[i] = LinhaSaida(afd, Str(Strip(arq_palavras.linhas[i])))

----------------------------------------------------------------------------
(* Properties of ler_afnd and ler_afd (SpecLer) *)

\* the sequence q without its i-th element
Remover(q, i) == SubSeq(q, 1, i - 1) \o SubSeq(q, i + 1, Len(q))

\* the lines of the file that the reader takes as transition lines (they come
\* after three lines that are not blank) and that have not three fields
TransicoesMalFormadas(arq) ==
    {i \in 1..Len(arq.linhas) :
        /\ Strip(arq.linhas[i]) # ""
        /\ Len(LinhasNaoVazias(SubSeq(arq.linhas, 1, i - 1))) >= 3
        /\ Len(Split(arq.linhas[i])) # 3}

\* C9: a reader that meets a transition line without three fields does not
\* abort, and returns the automaton it returns for the file without that
\* line; for ler_afnd and for ler_afd.
C9_LinhaMalFormadaIgnorada ==
    \A i \in TransicoesMalFormadas(arq_entrada) :
        /\ pc = "afnd_fim"
              => /\ excecao = ""
                 /\ afnd = ler_afnd(Arquivo(Remover(arq_entrada.linhas, i)))
                               .retorno
        /\ pc = "afd_fim"
              => /\ excecao = ""
                 /\ afd = ler_afd(Arquivo(Remover(arq_entrada.linhas, i)))
                              .retorno

\* the transition lines ler_afnd has gone through: positions 4 to linha_k - 1
LinhasPercorridas ==
    IF pc \in {"afnd_for", "afnd_fim"} /\ linha_k > 0
    THEN 4..(linha_k - 1) ELSE {}

\* C20: a three-field line whose symbol is not '0', '1' or 'h' is recorded by
\* ler_afnd as an epsilon transition from its origin to its destination and
\* the read goes on to the return; the alphabet never holds 'h' and holds
\* only symbols of recorded transitions that are not epsilon transitions.
C20_SimboloEstranhoViraVazio ==
    /\ \A i \in LinhasPercorridas :
          LET partes == Split(linhas[i].str)
          IN (Len(partes) = 3
                /\ ~InList(partes[2], <<Str("0"), Str("1"), H>>))
              => /\ <<partes[1], H>> \in DOMAIN transicoes_lidas
                 /\ partes[3] \in transicoes_lidas[<<partes[1], H>>].elems
                 /\ <<partes[1], partes[2]>> \notin DOMAIN transicoes_lidas
    /\ (pc = "afnd_fim" /\ Len(linhas) >= 3)
          => /\ excecao = ""
             /\ afnd # None
             /\ linha_k = Len(linhas) + 1
             /\ ~InList(H, afnd.alfabeto)
             /\ \A i \in 1..Len(afnd.alfabeto) :
                   \E k \in DOMAIN afnd.transicoes : k[2] = afnd.alfabeto[i]
    /\ pc \in {"afnd_for", "afnd_fim"}
          => /\ H \notin alfabeto_lido
             /\ \A a \in alfabeto_lido :
                   \E k \in DOMAIN transicoes_lidas : k[2] = a

\* ler_afnd returned for a file with the line 'A H B' followed by a line on
\* the symbol 0: an epsilon transition from A to B, and the alphabet 0
C20_Witness ==
    /\ pc = "afnd_fim"
    /\ Len(linhas) = 5
    /\ linhas[4] = Str("A H B")
    /\ Len(Split(linhas[5].str)) = 3
    /\ afnd # None
    /\ afnd.alfabeto = <<Str("0")>>
    /\ Str("B") \in afnd.transicoes[<<Str("A"), H>>].elems

====
